---- MODULE Spec2Model ----
(***************************************************************************)
(* Model of boidkit_simulation.hydraulic_muscle: the cylinder mesh         *)
(* (mesh.py), the spring network and the force model (physics.py) and the  *)
(* integration loop with its frame sampling and interruption handling      *)
(* (integrator.py).                                                        *)
(*                                                                         *)
(* Numbers.  The program computes in floating point; the model computes in *)
(* integers (fixed point, division truncating toward zero, square root     *)
(* rounded down).  Lengths are in millimetres, so the geometry constants   *)
(* keep the proportions of constants.py.  Time is in ticks of 1/6 s, so    *)
(* that the pressure period (5 s), the on-duration (0.5 s) and the frame   *)
(* intervals 1/fps for fps in {1, 2, 3, 6} are whole numbers of ticks.     *)
(* The mechanical constants (density, modulus, pressure, load, ring        *)
(* stiffness, damping) are in model units chosen so that a run stays       *)
(* inside TLC's 32-bit integers.  Floating-point rounding is not modelled. *)
(*                                                                         *)
(* Arrays are functions on 0..n-1 (the source's indices); a 3-vector is a  *)
(* tuple <<x, y, z>>, so the source's component c is the model's c+1.      *)
(***************************************************************************)
EXTENDS Integers, Sequences, FiniteSets, TLC

VARIABLES
    pc,                 \* where the program is
    args,               \* the arguments of the call under way
    vertices,           \* the vertex array handed to build_springs / simulate (its value at the call)
    triangles,          \* sequence of index triples
    ring_indices,       \* sequence of rings, each a sequence of vertex indices
    end_vertices,       \* <<start_vertices, end_vertices>>
    springs,            \* sequence of <<i, j, rest_length, k>>
    heap,               \* simulate: the arrays alive, by reference; heap[1] is the caller's vertex array
    positions,          \* simulate: reference of the positions array
    velocities,         \* simulate: reference of the velocities array
    original_vertices,  \* simulate: reference of the rest snapshot
    mass,               \* simulate: per-vertex mass
    frame_dt,           \* simulate: 1/fps
    next_frame_time,    \* simulate: the next sample threshold
    frames,             \* simulate: the trajectory, a sequence of references
    t,                  \* simulate: simulation time
    pressure,           \* simulate: the pressure of the step under way
    accelerations,      \* simulate: the accelerations of the step under way
    result,             \* what simulate returned (a sequence of references)
    exc,                \* the exception that left simulate, or "none"
    spring_forces,      \* the array compute_spring_forces returned
    returned_forces,    \* the array apply_external_load / compute_ring_constraints returned
    driver_pc,          \* where run_simulation is: "run", "test", "done" or "raised"
    calls,              \* history: the calls run_simulation has completed, in order
    step_start,         \* history: t, positions and velocities at the start of the step under way
    step_times,         \* history: the time t of every step begun
    partial,            \* history: what an interrupted twin of the run returned
    frame_times,        \* history: the time t at which each frame was appended
    pressure_log,       \* history: step time -> pressure used in that step
    interrupted_at      \* history: the pc at which KeyboardInterrupt arrived, or "none"

vars == <<pc, args, vertices, triangles, ring_indices, end_vertices, springs,
          heap, positions, velocities, original_vertices, mass, frame_dt,
          next_frame_time, frames, t, pressure, accelerations, result, exc,
          spring_forces, frame_times, pressure_log, interrupted_at, returned_forces,
          driver_pc, calls, step_start, step_times, partial>>

(***************************************************************************)
(* Bounds of the model.                                                    *)
(***************************************************************************)
MaxCirc == 4        \* generate_cylinder: n_circ in 1..MaxCirc
MaxAxial == 3       \* generate_cylinder: n_axial in 2..MaxAxial
MaxTris == 2        \* build_springs: arbitrary triangle arrays of up to MaxTris triangles
MaxSprings == 2     \* compute_spring_forces: spring lists of up to MaxSprings springs
MaxTEnd == 33       \* simulate: t_end in 0..MaxTEnd ticks
MaxDt == 3          \* simulate: dt in 1..MaxDt ticks
MaxRestSteps == 10  \* the unforced scenario: up to MaxRestSteps integration steps
MaxTwinTEnd == 8    \* the interrupted twin: t_end in 0..MaxTwinTEnd ticks
SignificandBits == 4    \* the clock in floating point: bits of the significand (53 in the program)
MaxClockTEnd == 24      \* the clock in floating point: t_end up to MaxClockTEnd
MaxRings == 2       \* compute_ring_constraints: up to MaxRings rings
MaxRingSize == 2    \* compute_ring_constraints: rings of up to MaxRingSize entries
MaxGroup == 2       \* apply_external_load: end-vertex groups of up to MaxGroup vertices
MaxDisplacement == 40   \* ring restoration: initial radial displacement in 1..MaxDisplacement mm
MaxRestoreSteps == 1    \* ring restoration: steps followed (the numbers of a further step exceed 32 bits)

(***************************************************************************)
(* constants.py                                                            *)
(***************************************************************************)
TUBE_LENGTH == 300
TUBE_RADIUS == 10
RING_SPACING == 20
WALL_THICKNESS == 1
WALL_DENSITY == 1
ELASTIC_MODULUS == 100
EXTERNAL_LOAD == 4000
PRESSURE_AMPLITUDE == 6
PRESSURE_ON_DURATION == 3
PRESSURE_PERIOD == 30
DAMPING_RATIO == 2
N_CIRCUMFERENTIAL == 24
\* physics.py, compute_ring_constraints: k_ring and the in-plane damping factor
K_RING == 40
RING_DAMPING == 20
\* the numerical floor 1e-10 of physics.py: below the smallest positive length
LENGTH_FLOOR == 1
TicksPerSecond == 2 * 3
N_AXIAL == 60

\* The same constants at their true proportions, for the ring-restoration run:
\* lengths in mm, time in steps of DT = 1e-4 s, mass in units of 1e-7 kg.
\* WALL_DENSITY 1100 kg/m^3 = 11 units/mm^3; k_ring 1e7 kg/s^2 = 1e6 units/step^2;
\* damping factor 200 kg/s = 2e5 units/step.
WALL_DENSITY_PER_STEP == 11
K_RING_PER_STEP == 1000000
RING_DAMPING_PER_STEP == 200000

(***************************************************************************)
(* Arithmetic of the fixed-point model.                                    *)
(***************************************************************************)
Abs(a) == IF a < 0 THEN -a ELSE a
Min(a, b) == IF a <= b THEN a ELSE b
Max(a, b) == IF a >= b THEN a ELSE b

\* a / b for b > 0, truncated toward zero (sign-symmetric, as float division is)
TDiv(a, b) == IF a >= 0 THEN a \div b ELSE -((-a) \div b)

\* float division by zero gives inf (numpy) instead of raising
Inf == 2^30
FloatDiv(a, b) == IF b = 0 THEN Inf ELSE TDiv(a, b)

RECURSIVE SqrtBits(_, _, _)
SqrtBits(n, r, b) ==
    IF b = 0 THEN r
    ELSE IF (r + b) * (r + b) <= n THEN SqrtBits(n, r + b, b \div 2)
         ELSE SqrtBits(n, r, b \div 2)
\* floor of the square root, n < 2^30
Sqrt(n) == SqrtBits(n, 0, 2^14)

\* Python 3 round(p / q), q > 0, p >= 0: to nearest, ties to even
PyRound(p, q) ==
    LET f == p \div q
        r2 == 2 * (p % q)
    IN  IF r2 < q THEN f
        ELSE IF r2 > q THEN f + 1
        ELSE IF f % 2 = 0 THEN f ELSE f + 1

VSub(a, b) == <<a[1] - b[1], a[2] - b[2], a[3] - b[3]>>
VAdd(a, b) == <<a[1] + b[1], a[2] + b[2], a[3] + b[3]>>
VNeg(a) == <<-a[1], -a[2], -a[3]>>
VScale(s, a) == <<s * a[1], s * a[2], s * a[3]>>
Zero3 == <<0, 0, 0>>
Dot(a, b) == a[1] * b[1] + a[2] * b[2] + a[3] * b[3]
\* np.linalg.norm
Norm(a) == Sqrt(Dot(a, a))
\* np.cross
Cross(a, b) == <<a[2] * b[3] - a[3] * b[2],
                 a[3] * b[1] - a[1] * b[3],
                 a[1] * b[2] - a[2] * b[1]>>
\* np.zeros_like
ZerosLike(arr) == [i \in DOMAIN arr |-> Zero3]

(***************************************************************************)
(* mesh.py: generate_cylinder                                              *)
(***************************************************************************)
\* 1000 * (cos, sin) of 2*pi*j/n, for n in 1..6, j in 0..n-1
CosSin1000 ==
    <<  << <<1000, 0>> >>,
        << <<1000, 0>>, <<-1000, 0>> >>,
        << <<1000, 0>>, <<-500, 866>>, <<-500, -866>> >>,
        << <<1000, 0>>, <<0, 1000>>, <<-1000, 0>>, <<0, -1000>> >>,
        << <<1000, 0>>, <<309, 951>>, <<-809, 588>>, <<-809, -588>>, <<309, -951>> >>,
        << <<1000, 0>>, <<500, 866>>, <<-500, 866>>, <<-1000, 0>>, <<-500, -866>>, <<500, -866>> >> >>
\* radius * cos(theta), radius * sin(theta), to the nearest unit
RoundDiv(a, b) == TDiv(2 * a + (IF a >= 0 THEN b ELSE -b), 2 * b)
Cos(radius, n, j) == RoundDiv(radius * CosSin1000[n][j + 1][1], 1000)
Sin(radius, n, j) == RoundDiv(radius * CosSin1000[n][j + 1][2], 1000)

CylinderVertices(n_circ, n_axial, length, radius) ==
    [idx \in 0..(n_circ * n_axial - 1) |->
        LET i == idx \div n_circ
            j == idx % n_circ
        IN  <<Cos(radius, n_circ, j), Sin(radius, n_circ, j),
              TDiv(length * i, n_axial - 1)>>]

\* the two triangles of quad (i, j), in the order the loop writes them
QuadTriangles(n_circ, i, j) ==
    LET j_next == (j + 1) % n_circ
        v00 == i * n_circ + j
        v01 == i * n_circ + j_next
        v10 == (i + 1) * n_circ + j
        v11 == (i + 1) * n_circ + j_next
    IN  << <<v00, v10, v01>>, <<v01, v10, v11>> >>

CylinderTriangles(n_circ, n_axial) ==
    [q \in 1..(2 * n_circ * (n_axial - 1)) |->
        LET quad == (q - 1) \div 2
        IN  QuadTriangles(n_circ, quad \div n_circ, quad % n_circ)[((q - 1) % 2) + 1]]

CylinderRings(n_circ, n_axial, length) ==
    LET n_rings == (length \div RING_SPACING) + 1
    IN  [ring \in 1..n_rings |->
            LET z_target == (ring - 1) * RING_SPACING
                i_closest == PyRound(z_target * (n_axial - 1), length)
            IN  [j \in 1..n_circ |-> i_closest * n_circ + (j - 1)]]

CylinderEnds(n_circ, n_axial) ==
    << [j \in 1..n_circ |-> j - 1],
       [j \in 1..n_circ |-> (n_axial - 1) * n_circ + (j - 1)] >>

generate_cylinder(n_circ, n_axial, length, radius) ==
    [vertices |-> CylinderVertices(n_circ, n_axial, length, radius),
     triangles |-> CylinderTriangles(n_circ, n_axial),
     ring_indices |-> CylinderRings(n_circ, n_axial, length),
     end_vertices |-> CylinderEnds(n_circ, n_axial)]

(***************************************************************************)
(* physics.py: build_springs                                               *)
(***************************************************************************)
\* a slip: the edge keeps the direction the triangle gives it
EdgeAsGiven(v1, v2) == <<v1, v2>>
\* a slip: high index -> low index
EdgeHighLow(v1, v2) == <<Max(v1, v2), Min(v1, v2)>>
\* lines 20-21: low index -> high index
Edge(v1, v2) == <<Min(v1, v2), Max(v1, v2)>>

\* lines 14-22: the set of edges of all triangles
TriangleEdges(tris) ==
    { Edge(tris[q][i + 1], tris[q][((i + 1) % 3) + 1]) : q \in DOMAIN tris, i \in 0..2 }

\* a slip: the spring is built one unit shorter than the edge
SpringPrestretched(verts, i, j) ==
    <<i, j, Norm(VSub(verts[i], verts[j])) - 1, ELASTIC_MODULUS>>
\* lines 27-38: the spring of edge (i, j)
Spring(verts, i, j) ==
    LET rest_length == Norm(VSub(verts[i], verts[j]))
        dz == Abs(verts[i][3] - verts[j][3])
        k == IF 4 * dz < RING_SPACING
             THEN FloatDiv(ELASTIC_MODULUS * WALL_THICKNESS * RING_SPACING, rest_length)
             ELSE FloatDiv(ELASTIC_MODULUS * WALL_THICKNESS * 2 * 22 * TUBE_RADIUS,
                           7 * N_CIRCUMFERENTIAL * rest_length)
    IN  <<i, j, rest_length, k>>

\* the iteration of a Python set has no specified order; the model takes the
\* edges in lexicographic order
EdgeBefore(e, f) == e[1] < f[1] \/ (e[1] = f[1] /\ e[2] <= f[2])
RECURSIVE EdgeList(_)
EdgeList(edges) ==
    IF edges = {} THEN <<>>
    ELSE LET e == CHOOSE x \in edges : \A y \in edges : EdgeBefore(x, y)
         IN  <<e>> \o EdgeList(edges \ {e})

build_springs(verts, tris) ==
    LET order == EdgeList(TriangleEdges(tris))
    IN  [n \in DOMAIN order |-> Spring(verts, order[n][1], order[n][2])]

(***************************************************************************)
(* physics.py: the force accumulators.  Each loops over elements and adds  *)
(* to the entries of a zero array; the model states, for each vertex v,    *)
(* the sum of what the iterations add to forces[v].                        *)
(***************************************************************************)
\* the sum of the vectors f[lo..hi]
RECURSIVE VSumRange(_, _, _)
VSumRange(f, lo, hi) ==
    IF lo > hi THEN Zero3
    ELSE IF lo = hi THEN f[lo]
    ELSE LET mid == (lo + hi) \div 2
         IN  VAdd(VSumRange(f, lo, mid), VSumRange(f, mid + 1, hi))
VSum(f) == VSumRange(f, 1, Len(f))

\* how often idx occurs in the sequence idxs
Occurrences(idxs, idx) == Cardinality({n \in DOMAIN idxs : idxs[n] = idx})

(***************************************************************************)
(* physics.py: compute_spring_forces                                       *)
(***************************************************************************)
\* a slip: the reaction on endpoint j gets the sign of the action on i
ApplySameSign(v, i, j, force_vec) ==
    VAdd(IF v = i THEN force_vec ELSE Zero3,
         IF v = j THEN force_vec ELSE Zero3)
\* lines 71-72: forces[i] += force_vec; forces[j] -= force_vec, as the change
\* of forces[v]
ApplySpringForce(v, i, j, force_vec) ==
    VAdd(IF v = i THEN force_vec ELSE Zero3,
         IF v = j THEN VNeg(force_vec) ELSE Zero3)

\* lines 54-70: the force vector of one spring; direction = displacement / length
\* and force_vec = force_mag * direction are folded into one division
SpringForceVec(verts, s) ==
    LET displacement == VSub(verts[s[2]], verts[s[1]])
        length == Norm(displacement)
        force_mag == s[4] * (length - s[3])
    IN  <<TDiv(force_mag * displacement[1], length),
          TDiv(force_mag * displacement[2], length),
          TDiv(force_mag * displacement[3], length)>>

\* lines 52-72: what the iteration of spring s adds to forces[v]
SpringStep(verts, s, v) ==
    IF v \notin {s[1], s[2]} THEN Zero3
    ELSE IF Norm(VSub(verts[s[2]], verts[s[1]])) < LENGTH_FLOOR THEN Zero3
    ELSE ApplySpringForce(v, s[1], s[2], SpringForceVec(verts, s))

compute_spring_forces(verts, sprs) ==
    [v \in DOMAIN verts |-> VSum([n \in DOMAIN sprs |-> SpringStep(verts, sprs[n], v)])]

(***************************************************************************)
(* physics.py: compute_pressure_forces                                     *)
(***************************************************************************)
\* lines 91-112: what the iteration of triangle tri adds to forces[v].
\* area = 0.5 * |normal|, unit normal = normal / (2 * area), force =
\* pressure * area * unit normal / 3, which is pressure * normal / 6
PressureStep(verts, tri, p, v) ==
    LET v0 == verts[tri[1]]
        v1 == verts[tri[2]]
        v2 == verts[tri[3]]
        normal == Cross(VSub(v1, v0), VSub(v2, v0))
        force == <<TDiv(p * normal[1], 6), TDiv(p * normal[2], 6), TDiv(p * normal[3], 6)>>
    IN  IF Occurrences(tri, v) = 0 THEN Zero3
        ELSE IF Norm(normal) < LENGTH_FLOOR THEN Zero3
        ELSE VScale(Occurrences(tri, v), force)

compute_pressure_forces(verts, tris, p) ==
    IF p <= 0 THEN ZerosLike(verts)
    ELSE [v \in DOMAIN verts |->
             VSum([n \in DOMAIN tris |-> PressureStep(verts, tris[n], p, v)])]

(***************************************************************************)
(* physics.py: apply_external_load                                         *)
(***************************************************************************)
\* lines 118-126: n_end is the size of the first group, for both loops; a
\* vertex in neither group is not touched (and load / n_end not computed)
apply_external_load(forces, ends, load) ==
    LET n_end == Len(ends[1])
    IN  [v \in DOMAIN forces |->
            IF Occurrences(ends[1], v) = 0 /\ Occurrences(ends[2], v) = 0
            THEN forces[v]
            ELSE <<forces[v][1], forces[v][2],
                   forces[v][3] - Occurrences(ends[2], v) * TDiv(load, n_end)
                                + Occurrences(ends[1], v) * TDiv(load, n_end)>>]

(***************************************************************************)
(* physics.py: compute_ring_constraints                                    *)
(***************************************************************************)
Norm2(x, y) == Sqrt(x * x + y * y)

\* a slip: the damping term takes the whole velocity, axial component included
RingForceDampingAxial(k_ring, damping, verts, vels, orig, idx) ==
    LET r_orig == Norm2(orig[idx][1], orig[idx][2])
        r_curr == Norm2(verts[idx][1], verts[idx][2])
    IN  IF r_orig < LENGTH_FLOOR \/ r_curr < LENGTH_FLOOR
        THEN Zero3
        ELSE <<TDiv(-k_ring * (r_curr - r_orig) * verts[idx][1], r_curr)
                   - damping * vels[idx][1],
               TDiv(-k_ring * (r_curr - r_orig) * verts[idx][2], r_curr)
                   - damping * vels[idx][2],
               -damping * vels[idx][3]>>
\* lines 138-170: what one iteration for ring vertex idx adds to forces[idx],
\* for the stiffness k_ring (line 161) and the damping factor (line 169) in
\* the units of the run
RingForce(k_ring, damping, verts, vels, orig, idx) ==
    LET r_orig == Norm2(orig[idx][1], orig[idx][2])
        r_curr == Norm2(verts[idx][1], verts[idx][2])
        fx == TDiv(-k_ring * (r_curr - r_orig) * verts[idx][1], r_curr)
              - damping * vels[idx][1]
        fy == TDiv(-k_ring * (r_curr - r_orig) * verts[idx][2], r_curr)
              - damping * vels[idx][2]
    IN  IF r_orig < LENGTH_FLOOR \/ r_curr < LENGTH_FLOOR
        THEN Zero3
        ELSE <<fx, fy, 0>>

RingStep(verts, vels, orig, idx) == RingForce(K_RING, RING_DAMPING, verts, vels, orig, idx)

\* lines 136-137: every occurrence of a vertex in a ring is one iteration
RingOccurrences(rings, idx) ==
    Cardinality(UNION { {<<r, n>> : n \in {m \in DOMAIN rings[r] : rings[r][m] = idx}} :
                        r \in DOMAIN rings })

compute_ring_constraints(verts, vels, rings, orig) ==
    [v \in DOMAIN verts |->
        IF RingOccurrences(rings, v) = 0 THEN Zero3
        ELSE VScale(RingOccurrences(rings, v), RingStep(verts, vels, orig, v))]

\* compute_ring_constraints in the units of a run whose stiffness and damping
\* factor are k_ring and damping
RingConstraints(k_ring, damping, verts, vels, rings, orig) ==
    [v \in DOMAIN verts |->
        IF RingOccurrences(rings, v) = 0 THEN Zero3
        ELSE VScale(RingOccurrences(rings, v),
                    RingForce(k_ring, damping, verts, vels, orig, v))]

(***************************************************************************)
(* integrator.py                                                           *)
(***************************************************************************)
\* a slip: the on/off test includes the end of the on-phase
pressure_at_time_inclusive(time) ==
    IF time % PRESSURE_PERIOD <= PRESSURE_ON_DURATION THEN PRESSURE_AMPLITUDE ELSE 0
pressure_at_time(time) ==
    LET cycle_position == time % PRESSURE_PERIOD
    IN  IF cycle_position < PRESSURE_ON_DURATION THEN PRESSURE_AMPLITUDE ELSE 0

ArrAdd(a, b) == [i \in DOMAIN a |-> VAdd(a[i], b[i])]

\* lines 49-53, for a wall of the given density
VertexMassOf(density, n_vertices) ==
    LET tube_volume == TDiv(22 * (2 * TUBE_RADIUS) * TUBE_LENGTH * WALL_THICKNESS, 7)
        total_mass == tube_volume * density
    IN  TDiv(total_mass, n_vertices)

VertexMass(n_vertices) == VertexMassOf(WALL_DENSITY, n_vertices)

\* lines 85-107: the accelerations of a step, for a given external load
AccelerationsUnder(pos, vel, orig, p, load, tris, sprs, rings, ends, m) ==
    LET f1 == ArrAdd(ZerosLike(pos), compute_spring_forces(pos, sprs))
        f2 == ArrAdd(f1, compute_pressure_forces(pos, tris, p))
        f3 == apply_external_load(f2, ends, load)
        f4 == ArrAdd(f3, compute_ring_constraints(pos, vel, rings, orig))
        f5 == [i \in DOMAIN f4 |-> VSub(f4[i], VScale(DAMPING_RATIO, vel[i]))]
    IN  [i \in DOMAIN f5 |-> <<TDiv(f5[i][1], m), TDiv(f5[i][2], m), TDiv(f5[i][3], m)>>]

\* line 97: apply_external_load(forces, end_vertices) takes the default load
Accelerations(pos, vel, orig, p, tris, sprs, rings, ends, m) ==
    AccelerationsUnder(pos, vel, orig, p, EXTERNAL_LOAD, tris, sprs, rings, ends, m)

\* line 110: velocities += dt * accelerations
StepVelocities(vel, acc, dt) == [i \in DOMAIN vel |-> VAdd(vel[i], VScale(dt, acc[i]))]
\* line 111: positions += dt * velocities
StepPositions(pos, vel, dt) == [i \in DOMAIN pos |-> VAdd(pos[i], VScale(dt, vel[i]))]

\* line 61: frame_dt = 1.0 / fps
FrameInterval(fps) == TicksPerSecond \div fps

\* a slip: the position update comes before the velocity update
PositionFirst(p) ==
    CASE p = "forces" -> "pos"
      [] p = "pos" -> "vel"
      [] p = "vel" -> "rec"
\* the statement that follows the forces (lines 82-107), the velocity update
\* (line 110) and the position update (line 111)
Following(p) ==
    CASE p = "forces" -> "vel"
      [] p = "vel" -> "pos"
      [] p = "pos" -> "rec"

\* a slip: the array itself is kept instead of a copy of it
KeepReference(h, src) == [ref |-> src, heap |-> h]
\* ndarray.copy(): a new array with the contents of h[src]
ndarray_copy(h, src) == [ref |-> Len(h) + 1, heap |-> Append(h, h[src])]

\* a slip: the frame is put at the front of the list
ListPrepend(lst, x) == <<x>> \o lst
\* list.append
ListAppend(lst, x) == Append(lst, x)

\* a slip: the step's time counts only once it has passed the threshold
FrameDueStrict(time, threshold) == time > threshold
\* line 114: t >= next_frame_time
FrameDue(time, threshold) == time >= threshold

\* a slip: the threshold skips a sample
AdvanceTwice(threshold, interval) == threshold + 2 * interval
\* a slip: the threshold is never advanced
KeepThreshold(threshold, interval) == threshold
\* line 116: next_frame_time += frame_dt
AdvanceThreshold(threshold, interval) == threshold + interval

\* a slip: the list returned lacks the first frame
HandlerDropsFirst(frs, time, t_end) ==
    IF frs # <<>>
    THEN [pc |-> "returned", exc |-> "none", result |-> Tail(frs)]
    ELSE [pc |-> "raised", exc |-> "KeyboardInterrupt", result |-> <<>>]
\* a slip: whatever was collected is dropped and the interruption re-raised
HandlerAlwaysRaises(frs, time, t_end) ==
    [pc |-> "raised", exc |-> "KeyboardInterrupt", result |-> <<>>]
\* lines 144-149: the handler of KeyboardInterrupt.  Line 145 formats
\* t / t_end * 100 first, which raises ZeroDivisionError when t_end is 0.
except_KeyboardInterrupt(frs, time, t_end) ==
    IF t_end = 0
    THEN [pc |-> "raised", exc |-> "ZeroDivisionError", result |-> <<>>]
    ELSE IF frs # <<>>
         THEN [pc |-> "returned", exc |-> "none", result |-> frs]
         ELSE [pc |-> "raised", exc |-> "KeyboardInterrupt", result |-> <<>>]

(***************************************************************************)
(* The calls the model makes.                                              *)
(***************************************************************************)
\* the frame rates whose frame interval is a whole number of ticks
FrameRates == {fps \in 1..TicksPerSecond : TicksPerSecond % fps = 0}

\* build_springs on a generated cylinder
CylinderCalls ==
    [kind : {"cylinder"}, n_circ : 1..MaxCirc, n_axial : 2..MaxAxial]

\* build_springs on an arbitrary triangle array over the four vertices of a
\* 2 x 2 cylinder
GivenVertices == CylinderVertices(2, 2, TUBE_LENGTH, TUBE_RADIUS)
Triples == {<<a, b, c>> : a \in DOMAIN GivenVertices, b \in DOMAIN GivenVertices,
                          c \in DOMAIN GivenVertices}
TriangleArrays == UNION {[1..n -> Triples] : n \in 0..MaxTris}
GivenCalls == [kind : {"given"}, triangles : TriangleArrays]

\* simulate on the 4 x 2 cylinder
SimulateCalls ==
    [kind : {"simulate"}, n_circ : {4}, n_axial : {2},
     t_end : -1..MaxTEnd, dt : 1..MaxDt, fps : FrameRates]

\* the variables of simulate before the call
NotSimulating ==
    /\ heap = <<>>
    /\ positions = 0
    /\ velocities = 0
    /\ original_vertices = 0
    /\ mass = 0
    /\ frame_dt = 0
    /\ next_frame_time = 0
    /\ frames = <<>>
    /\ t = 0
    /\ pressure = 0
    /\ accelerations = <<>>
    /\ result = <<>>
    /\ exc = "none"
    /\ frame_times = <<>>
    /\ pressure_log = <<>>
    /\ interrupted_at = "none"
    /\ step_start = [t |-> 0, positions |-> <<>>, velocities |-> <<>>]
    /\ step_times = <<>>
    /\ partial = [at |-> "none", frames |-> <<>>]

\* run_simulation before its first call
NotDriving ==
    /\ driver_pc = "run"
    /\ calls = <<>>
    /\ returned_forces = <<>>

NoMesh ==
    /\ vertices = <<>>
    /\ triangles = <<>>
    /\ ring_indices = <<>>
    /\ end_vertices = <<>>
    /\ springs = <<>>
    /\ spring_forces = <<>>

simVars == <<heap, positions, velocities, original_vertices, mass, frame_dt,
             next_frame_time, frames, t, pressure, accelerations, result, exc,
             frame_times, pressure_log, interrupted_at, step_start, step_times,
             partial>>
driverVars == <<driver_pc, calls>>
meshVars == <<vertices, triangles, ring_indices, end_vertices>>

\* driver.py lines 35-41: the mesh of the call
GenerateCylinder ==
    /\ pc = "start"
    /\ args.kind \in {"cylinder", "simulate"}
    /\ LET m == generate_cylinder(args.n_circ, args.n_axial, TUBE_LENGTH, TUBE_RADIUS)
       IN  /\ vertices' = m.vertices
           /\ triangles' = m.triangles
           /\ ring_indices' = m.ring_indices
           /\ end_vertices' = m.end_vertices
    /\ pc' = "meshed"
    /\ calls' = Append(calls, "generate_cylinder")
    /\ UNCHANGED <<args, springs, spring_forces, returned_forces, driver_pc>>
    /\ UNCHANGED simVars

\* a caller's own triangle array
GivenMesh ==
    /\ pc = "start"
    /\ args.kind = "given"
    /\ vertices' = GivenVertices
    /\ triangles' = args.triangles
    /\ ring_indices' = <<>>
    /\ end_vertices' = <<<<>>, <<>>>>
    /\ pc' = "meshed"
    /\ UNCHANGED <<args, springs, spring_forces, returned_forces>>
    /\ UNCHANGED driverVars
    /\ UNCHANGED simVars

\* driver.py line 43: springs = build_springs(vertices, triangles)
BuildSprings ==
    /\ pc = "meshed"
    /\ springs' = build_springs(vertices, triangles)
    /\ pc' = "built"
    /\ calls' = Append(calls, "build_springs")
    /\ UNCHANGED <<args, spring_forces, returned_forces, driver_pc>>
    /\ UNCHANGED meshVars
    /\ UNCHANGED simVars

InitMesh ==
    /\ pc = "start"
    /\ NotDriving
    /\ args \in CylinderCalls \cup GivenCalls
    /\ NoMesh
    /\ NotSimulating

NextMesh == GenerateCylinder \/ GivenMesh \/ BuildSprings

SpecMesh == InitMesh /\ [][NextMesh]_vars

(***************************************************************************)
(* Claims about build_springs (checked under SpecMesh).                    *)
(***************************************************************************)
\* the undirected edges of a triangle array, as sets of endpoints
UndirectedEdges(tris) ==
    { {tris[q][a], tris[q][(a % 3) + 1]} : q \in DOMAIN tris, a \in 1..3 }

SpringPairs == { <<springs[n][1], springs[n][2]>> : n \in DOMAIN springs }

\* C8: build_springs returns exactly one spring per unique undirected edge of
\* the triangles: every triangle edge has a spring, every spring is a triangle
\* edge, no two springs have the same (i, j), an edge met in both orientations
\* gives one spring; for a generated cylinder with n_circ >= 3 and
\* n_axial >= 2 the count is n_circ * (3 * n_axial - 2).
C8_OneSpringPerEdge ==
    pc = "built" =>
        /\ { {p[1], p[2]} : p \in SpringPairs } = UndirectedEdges(triangles)
        /\ Len(springs) = Cardinality(UndirectedEdges(triangles))
        /\ \A m, n \in DOMAIN springs :
              m # n => <<springs[m][1], springs[m][2]>> # <<springs[n][1], springs[n][2]>>
        /\ (args.kind = "cylinder" /\ args.n_circ >= 3 /\ args.n_axial >= 2)
              => Len(springs) = args.n_circ * (3 * args.n_axial - 2)

\* two triangles that run along a common edge in opposite directions
C8_Witness ==
    /\ pc = "built"
    /\ args.kind = "given"
    /\ triangles = << <<0, 1, 2>>, <<1, 0, 3>> >>
    /\ Len(springs) = 5

\* C9 as stated: every spring has distinct endpoints i < j that are valid
\* vertex indices, for every triangle array with valid entries.
C9_Original ==
    pc = "built" =>
        \A n \in DOMAIN springs :
            /\ springs[n][1] < springs[n][2]
            /\ springs[n][1] \in DOMAIN vertices
            /\ springs[n][2] \in DOMAIN vertices

DistinctCorners(tri) == tri[1] # tri[2] /\ tri[2] # tri[3] /\ tri[1] # tri[3]

\* C9 amended: when every triangle has three distinct (valid) vertex indices,
\* every spring has distinct endpoints i < j that are valid vertex indices; a
\* triangle that repeats an index yields a spring with i = j.
C9_DistinctEndpoints ==
    (pc = "built" /\ \A q \in DOMAIN triangles : DistinctCorners(triangles[q])) =>
        \A n \in DOMAIN springs :
            /\ springs[n][1] < springs[n][2]
            /\ springs[n][1] \in DOMAIN vertices
            /\ springs[n][2] \in DOMAIN vertices

C9_Witness ==
    /\ pc = "built"
    /\ args.kind = "given"
    /\ triangles = << <<2, 1, 0>>, <<3, 2, 1>> >>
    /\ Len(springs) = 5
    /\ \A n \in DOMAIN springs : springs[n][1] < springs[n][2]

(***************************************************************************)
(* compute_spring_forces on arbitrary positions and spring lists.          *)
(***************************************************************************)
Points == { <<0, 0, 0>>, <<3, 4, 0>>, <<-2, 1, 5>> }
PositionArrays == [0..2 -> Points]
\* springs between any two of the three vertices (i = j, i > j included),
\* slack (rest length 0 < length), at rest or compressed
AnySpring == { <<i, j, rest, 3>> : i \in 0..2, j \in 0..2, rest \in {0, 5} }
SpringLists == UNION {[1..n -> AnySpring] : n \in 0..MaxSprings}

ComputeSpringForces ==
    /\ pc = "start"
    /\ args.kind = "spring_forces"
    /\ spring_forces' = compute_spring_forces(vertices, springs)
    /\ pc' = "done"
    /\ UNCHANGED <<args, springs, returned_forces>>
    /\ UNCHANGED driverVars
    /\ UNCHANGED meshVars
    /\ UNCHANGED simVars

InitForces ==
    /\ pc = "start"
    /\ NotDriving
    /\ args = [kind |-> "spring_forces"]
    /\ vertices \in PositionArrays
    /\ springs \in SpringLists
    /\ triangles = <<>>
    /\ ring_indices = <<>>
    /\ end_vertices = <<>>
    /\ spring_forces = <<>>
    /\ NotSimulating

NextForces == ComputeSpringForces

SpecForces == InitForces /\ [][NextForces]_vars

RECURSIVE SumOver(_, _)
SumOver(arr, idxs) ==
    IF idxs = {} THEN Zero3
    ELSE LET i == CHOOSE x \in idxs : TRUE
         IN  VAdd(arr[i], SumOver(arr, idxs \ {i}))

\* C10: each spring adds a force vector to endpoint i and its exact negation
\* to endpoint j, or nothing to either when its length is below the floor, so
\* the spring forces of all vertices sum to the zero vector, for any positions
\* and any spring list.
C10_SpringForcesCancel ==
    (pc = "done" /\ args.kind = "spring_forces") =>
        /\ SumOver(spring_forces, DOMAIN spring_forces) = Zero3
        /\ (Len(springs) = 1 /\ springs[1][1] # springs[1][2]) =>
              /\ spring_forces[springs[1][2]] = VNeg(spring_forces[springs[1][1]])
              /\ \A v \in DOMAIN spring_forces :
                    v \notin {springs[1][1], springs[1][2]} => spring_forces[v] = Zero3
              /\ vertices[springs[1][1]] = vertices[springs[1][2]]
                    => spring_forces = ZerosLike(vertices)

\* two stretched springs have acted and left a force on some vertex
C10_Witness ==
    /\ pc = "done"
    /\ args.kind = "spring_forces"
    /\ Len(springs) = 2
    /\ springs[1][1] # springs[1][2]
    /\ \E v \in DOMAIN spring_forces : spring_forces[v] # Zero3

(***************************************************************************)
(* integrator.py: simulate, on the mesh and springs of the call.           *)
(***************************************************************************)
\* the positions of the program inside the try block (lines 79-142)
TryBlock == {"while", "forces", "vel", "pos", "rec", "append", "schedule", "advance"}

\* lines 45-77: mass, the state arrays, the frame schedule, t = 0
SimulateEnter ==
    /\ pc = "built"
    /\ args.kind = "simulate"
    /\ LET p == ndarray_copy(<<vertices>>, 1)
           h2 == Append(p.heap, ZerosLike(vertices))
           o == ndarray_copy(h2, 1)
       IN  /\ positions' = p.ref
           /\ velocities' = Len(h2)
           /\ original_vertices' = o.ref
           /\ heap' = o.heap
    /\ mass' = VertexMass(Cardinality(DOMAIN vertices))
    /\ frame_dt' = FrameInterval(args.fps)
    /\ next_frame_time' = 0
    /\ frames' = <<>>
    /\ t' = 0
    /\ pc' = "while"
    /\ UNCHANGED <<args, springs, spring_forces, returned_forces, pressure, accelerations, result, exc,
                   frame_times, pressure_log, interrupted_at>>
    /\ UNCHANGED <<step_start, step_times, partial>>
    /\ UNCHANGED driverVars
    /\ UNCHANGED meshVars

\* line 80: while t < t_end
LoopTest ==
    /\ pc = "while"
    /\ pc' = IF t < args.t_end THEN "forces" ELSE "epilogue"
    /\ UNCHANGED <<args, springs, spring_forces, returned_forces>>
    /\ UNCHANGED driverVars
    /\ UNCHANGED meshVars
    /\ UNCHANGED simVars

\* lines 82-107: the pressure of the step, the net force, the accelerations
ComputeForces ==
    /\ pc = "forces"
    /\ pressure' = pressure_at_time(t)
    /\ accelerations' = Accelerations(heap[positions], heap[velocities],
                                      heap[original_vertices], pressure', triangles,
                                      springs, ring_indices, end_vertices, mass)
    /\ pressure_log' = (t :> pressure') @@ pressure_log
    /\ pc' = Following(pc)
    /\ UNCHANGED <<args, springs, spring_forces, returned_forces, heap, positions, velocities,
                   original_vertices, mass, frame_dt, next_frame_time, frames, t,
                   result, exc, frame_times, interrupted_at>>
    /\ step_start' = [t |-> t, positions |-> heap[positions],
                      velocities |-> heap[velocities]]
    /\ step_times' = Append(step_times, t)
    /\ UNCHANGED partial
    /\ UNCHANGED driverVars
    /\ UNCHANGED meshVars

\* line 110: velocities += dt * accelerations (in place)
UpdateVelocities ==
    /\ pc = "vel"
    /\ heap' = [heap EXCEPT ![velocities] = StepVelocities(@, accelerations, args.dt)]
    /\ pc' = Following(pc)
    /\ UNCHANGED <<args, springs, spring_forces, returned_forces, positions, velocities,
                   original_vertices, mass, frame_dt, next_frame_time, frames, t,
                   pressure, accelerations, result, exc, frame_times, pressure_log,
                   interrupted_at>>
    /\ UNCHANGED <<step_start, step_times, partial>>
    /\ UNCHANGED driverVars
    /\ UNCHANGED meshVars

\* line 111: positions += dt * velocities (in place)
UpdatePositions ==
    /\ pc = "pos"
    /\ heap' = [heap EXCEPT ![positions] = StepPositions(@, heap[velocities], args.dt)]
    /\ pc' = Following(pc)
    /\ UNCHANGED <<args, springs, spring_forces, returned_forces, positions, velocities,
                   original_vertices, mass, frame_dt, next_frame_time, frames, t,
                   pressure, accelerations, result, exc, frame_times, pressure_log,
                   interrupted_at>>
    /\ UNCHANGED <<step_start, step_times, partial>>
    /\ UNCHANGED driverVars
    /\ UNCHANGED meshVars

\* line 114: if t >= next_frame_time
RecordTest ==
    /\ pc = "rec"
    /\ pc' = IF FrameDue(t, next_frame_time) THEN "append" ELSE "advance"
    /\ UNCHANGED <<args, springs, spring_forces, returned_forces>>
    /\ UNCHANGED driverVars
    /\ UNCHANGED meshVars
    /\ UNCHANGED simVars

\* line 115: frames.append(positions.copy())
AppendFrame ==
    /\ pc = "append"
    /\ LET c == ndarray_copy(heap, positions)
       IN  /\ heap' = c.heap
           /\ frames' = ListAppend(frames, c.ref)
    /\ frame_times' = Append(frame_times, t)
    /\ pc' = "schedule"
    /\ UNCHANGED <<args, springs, spring_forces, returned_forces, positions, velocities,
                   original_vertices, mass, frame_dt, next_frame_time, t, pressure,
                   accelerations, result, exc, pressure_log, interrupted_at>>
    /\ UNCHANGED <<step_start, step_times, partial>>
    /\ UNCHANGED driverVars
    /\ UNCHANGED meshVars

\* line 116: next_frame_time += frame_dt (lines 118-138 only log)
ScheduleNextFrame ==
    /\ pc = "schedule"
    /\ next_frame_time' = AdvanceThreshold(next_frame_time, frame_dt)
    /\ pc' = "advance"
    /\ UNCHANGED <<args, springs, spring_forces, returned_forces, heap, positions, velocities,
                   original_vertices, mass, frame_dt, frames, t, pressure,
                   accelerations, result, exc, frame_times, pressure_log,
                   interrupted_at>>
    /\ UNCHANGED <<step_start, step_times, partial>>
    /\ UNCHANGED driverVars
    /\ UNCHANGED meshVars

\* line 141: t += dt
AdvanceTime ==
    /\ pc = "advance"
    /\ t' = t + args.dt
    /\ pc' = "while"
    /\ UNCHANGED <<args, springs, spring_forces, returned_forces, heap, positions, velocities,
                   original_vertices, mass, frame_dt, next_frame_time, frames,
                   pressure, accelerations, result, exc, frame_times, pressure_log,
                   interrupted_at>>
    /\ UNCHANGED <<step_start, step_times, partial>>
    /\ UNCHANGED driverVars
    /\ UNCHANGED meshVars

\* lines 151-158: the loop has ended; return frames
Return ==
    /\ pc = "epilogue"
    /\ result' = frames
    /\ pc' = "returned"
    /\ UNCHANGED <<args, springs, spring_forces, returned_forces, heap, positions, velocities,
                   original_vertices, mass, frame_dt, next_frame_time, frames, t,
                   pressure, accelerations, exc, frame_times, pressure_log,
                   interrupted_at>>
    /\ UNCHANGED <<step_start, step_times, partial>>
    /\ UNCHANGED driverVars
    /\ UNCHANGED meshVars

\* KeyboardInterrupt arrives inside the try block: lines 144-149
Interrupt ==
    /\ pc \in TryBlock
    /\ LET out == except_KeyboardInterrupt(frames, t, args.t_end)
       IN  /\ pc' = out.pc
           /\ exc' = out.exc
           /\ result' = out.result
    /\ interrupted_at' = pc
    /\ UNCHANGED <<args, springs, spring_forces, returned_forces, heap, positions, velocities,
                   original_vertices, mass, frame_dt, next_frame_time, frames, t,
                   pressure, accelerations, frame_times, pressure_log>>
    /\ UNCHANGED <<step_start, step_times, partial>>
    /\ UNCHANGED driverVars
    /\ UNCHANGED meshVars

\* KeyboardInterrupt arrives outside the try block (lines 45-77 before it,
\* lines 151-158 after it): no handler, it leaves simulate
InterruptOutsideTry ==
    /\ pc \in {"built", "epilogue"}
    /\ args.kind = "simulate"
    /\ pc' = "raised"
    /\ exc' = "KeyboardInterrupt"
    /\ interrupted_at' = pc
    /\ UNCHANGED <<args, springs, spring_forces, returned_forces, heap, positions, velocities,
                   original_vertices, mass, frame_dt, next_frame_time, frames, t,
                   pressure, accelerations, result, frame_times, pressure_log>>
    /\ UNCHANGED <<step_start, step_times, partial>>
    /\ UNCHANGED driverVars
    /\ UNCHANGED meshVars

(***************************************************************************)
(* driver.py: run_simulation after its call of simulate (lines 48-58).     *)
(***************************************************************************)
\* the calls of run_simulation in the order of lines 35-55
Pipeline == <<"generate_cylinder", "build_springs", "simulate", "create_animation">>

\* a slip: the renderer is called whatever simulate returned
RenderAlways(frs) == TRUE
\* line 53: if frames
RenderTest(frs) == frs # <<>>

\* lines 48-51: simulate has returned; line 51 divides the elapsed time by
\* duration, which raises ZeroDivisionError when duration is 0
DriverLog ==
    /\ pc = "returned"
    /\ driver_pc = "run"
    /\ calls' = Append(calls, "simulate")
    /\ driver_pc' = IF args.t_end = 0 THEN "raised" ELSE "test"
    /\ UNCHANGED <<pc, args, springs, spring_forces, returned_forces>>
    /\ UNCHANGED meshVars
    /\ UNCHANGED simVars

\* lines 53-58: create_animation on a non-empty list, a warning otherwise
DriverRender ==
    /\ driver_pc = "test"
    /\ calls' = IF RenderTest(result) THEN Append(calls, "create_animation") ELSE calls
    /\ driver_pc' = "done"
    /\ UNCHANGED <<pc, args, springs, spring_forces, returned_forces>>
    /\ UNCHANGED meshVars
    /\ UNCHANGED simVars

\* lines 48-49: simulate raised; run_simulation has no handler
DriverPropagate ==
    /\ pc = "raised"
    /\ driver_pc = "run"
    /\ driver_pc' = "raised"
    /\ UNCHANGED <<pc, args, springs, spring_forces, returned_forces, calls>>
    /\ UNCHANGED meshVars
    /\ UNCHANGED simVars

Init ==
    /\ pc = "start"
    /\ NotDriving
    /\ args \in SimulateCalls
    /\ NoMesh
    /\ NotSimulating

Next ==
    \/ GenerateCylinder
    \/ BuildSprings
    \/ SimulateEnter
    \/ LoopTest
    \/ ComputeForces
    \/ UpdateVelocities
    \/ UpdatePositions
    \/ RecordTest
    \/ AppendFrame
    \/ ScheduleNextFrame
    \/ AdvanceTime
    \/ Return
    \/ Interrupt
    \/ InterruptOutsideTry
    \/ DriverLog
    \/ DriverRender
    \/ DriverPropagate

Spec == Init /\ [][Next]_vars

C2_Original ==
    (interrupted_at \in TryBlock /\ frames = <<>>) =>
        /\ pc = "raised"
        /\ exc = "KeyboardInterrupt"

\* the square wave, written from the claim
SquareWave(time) ==
    IF time % PRESSURE_PERIOD < PRESSURE_ON_DURATION THEN PRESSURE_AMPLITUDE ELSE 0

\* C3: the pressure of every step is the square wave of the time t at the
\* start of that step (amplitude when t mod period < on_duration, else 0), so
\* steps one period apart use the same pressure; until t is advanced the
\* pressure in use is the one computed from the current t.
C3_PressureSquareWave ==
    /\ \A time \in DOMAIN pressure_log : pressure_log[time] = SquareWave(time)
    /\ \A t1, t2 \in DOMAIN pressure_log :
          t2 = t1 + PRESSURE_PERIOD => pressure_log[t1] = pressure_log[t2]
    /\ pc \in {"vel", "pos", "rec", "append", "schedule", "advance"} =>
          /\ t \in DOMAIN pressure_log
          /\ pressure = pressure_log[t]
          /\ pressure = SquareWave(t)

\* a run has used the amplitude at t and one period later, and 0 in between
C3_Witness ==
    \E t1 \in DOMAIN pressure_log :
        /\ t1 + PRESSURE_PERIOD \in DOMAIN pressure_log
        /\ pressure_log[t1] = PRESSURE_AMPLITUDE
        /\ pressure_log[t1 + PRESSURE_PERIOD] = PRESSURE_AMPLITUDE
        /\ \E t2 \in DOMAIN pressure_log : t1 < t2 /\ pressure_log[t2] = 0

\* C4: a run that completes without interruption, with dt <= 1/fps, returns a
\* number of frames that differs from t_end * fps by at most one (in ticks:
\* count * frame_dt differs from t_end by at most frame_dt).
C4_FrameCount ==
    (pc = "returned" /\ interrupted_at = "none" /\ args.dt <= frame_dt) =>
        Abs(Len(result) * frame_dt - args.t_end) <= frame_dt

\* an uninterrupted run whose duration is no multiple of the frame interval,
\* whose frame interval is no multiple of the step
C4_Witness ==
    /\ pc = "returned"
    /\ interrupted_at = "none"
    /\ args.dt = 2
    /\ frame_dt = 3
    /\ args.t_end = 32
    /\ Len(result) = 11

C6_AppendOnlyTimeOrdered ==
    /\ [](/\ Len(frame_times) = Len(frames)
          /\ \A k \in 1..(Len(frame_times) - 1) : frame_times[k] < frame_times[k + 1])
    /\ [][\/ frames' = frames
          \/ /\ Len(frames') = Len(frames) + 1
             /\ SubSeq(frames', 1, Len(frames)) = frames]_vars

\* three frames have been appended and the loop goes on
C6_Witness ==
    /\ Len(frames) >= 3
    /\ pc = "while"

\* C7: every recorded frame is an independent copy: no later step changes the
\* contents of a frame already in the trajectory, and the caller's vertex
\* array keeps the contents it had at the call.
C7_FramesAreCopies ==
    /\ [](heap # <<>> => heap[1] = vertices)
    /\ [][\A k \in DOMAIN frames : heap'[frames[k]] = heap[frames[k]]]_vars

\* the live positions have moved on from the first frame and from the input
C7_Witness ==
    /\ Len(frames) >= 2
    /\ heap[positions] # heap[frames[1]]
    /\ heap[positions] # heap[frames[2]]
    /\ heap[frames[1]] # heap[frames[2]]
    /\ heap[positions] # vertices

\* the program is inside a step, after the forces have been computed
InStep == pc \in {"vel", "pos", "rec", "append", "schedule", "advance"}
\* the velocities and positions a step must produce from the state it began
\* in and the accelerations it computed
VelocitiesDue == StepVelocities(step_start.velocities, accelerations, args.dt)
PositionsDue == StepPositions(step_start.positions, VelocitiesDue, args.dt)

\* C15: within a step the pressure is computed from t, the forces from the
\* positions and velocities the step began with, then v += dt * a, then
\* x += dt * v with the updated v, then a frame may be recorded, and last t
\* advances by dt; a recorded frame holds the positions after the position
\* update of its step.
C15_StepOrder ==
    /\ [](InStep =>
            /\ t = step_start.t
            /\ pressure = pressure_at_time(t))
    /\ [](pc = "vel" =>
            /\ heap[positions] = step_start.positions
            /\ heap[velocities] = step_start.velocities
            /\ accelerations = Accelerations(step_start.positions, step_start.velocities,
                                             heap[original_vertices], pressure, triangles,
                                             springs, ring_indices, end_vertices, mass))
    /\ [](pc = "pos" =>
            /\ heap[velocities] = VelocitiesDue
            /\ heap[positions] = step_start.positions)
    /\ [](pc \in {"rec", "append", "schedule", "advance"} =>
            /\ heap[velocities] = VelocitiesDue
            /\ heap[positions] = PositionsDue)
    /\ [](pc = "schedule" =>
            /\ heap[frames[Len(frames)]] = PositionsDue
            /\ frame_times[Len(frame_times)] = t)
    /\ [][/\ InStep => UNCHANGED <<accelerations, pressure, step_start>>
          /\ t' # t => (pc = "advance" /\ t' = t + args.dt)
          /\ frames' # frames => (pc = "append" /\ pc' = "schedule")]_vars

\* a frame has just been recorded in a later step, with the body in motion
C15_Witness ==
    /\ pc = "schedule"
    /\ t > 0
    /\ Len(frames) >= 2
    /\ step_start.velocities # ZerosLike(vertices)
    /\ VelocitiesDue # step_start.velocities
    /\ heap[frames[Len(frames)]] = PositionsDue
    /\ PositionsDue # StepPositions(step_start.positions, step_start.velocities, args.dt)

\* the step under way has recorded a frame
RecordedThisStep == frame_times # <<>> /\ frame_times[Len(frame_times)] = t

\* C17: at every step boundary the next-sample threshold is the number of
\* frames recorded so far times 1/fps; a step records at most one frame, and
\* records one exactly when its time t is at or past the threshold; with
\* dt > 1/fps every step records one frame and the threshold falls behind t.
C17_ThresholdSchedule ==
    /\ pc \in {"while", "forces", "vel", "pos", "rec", "append", "advance", "epilogue"}
          => next_frame_time = Len(frames) * frame_dt
    /\ pc = "schedule" => next_frame_time = (Len(frames) - 1) * frame_dt
    /\ Len(frames) <= Len(step_times)
    /\ \A j, k \in DOMAIN frame_times : j # k => frame_times[j] # frame_times[k]
    /\ pc = "advance" =>
          IF RecordedThisStep
          THEN t >= next_frame_time - frame_dt
          ELSE t < next_frame_time
    /\ (pc = "while" /\ args.dt > frame_dt) =>
          /\ Len(frames) = Len(step_times)
          /\ next_frame_time <= t
          /\ t > 0 => next_frame_time < t

\* four steps of 3 ticks at a frame interval of 1 tick: four frames, the
\* threshold at 4 ticks while t is at 12
C17_Witness ==
    /\ pc = "while"
    /\ args.dt = 3
    /\ frame_dt = 1
    /\ Len(frames) = 4
    /\ t = 12
    /\ next_frame_time = 4

(***************************************************************************)
(* The integration step of simulate (lines 82-111, 141) under a chosen     *)
(* pressure amplitude and external load, from the built mesh at rest.      *)
(***************************************************************************)
RestCalls ==
    [kind : {"rest"}, n_circ : 1..MaxCirc, n_axial : 2..MaxAxial, dt : 1..MaxDt,
     amplitude : {0, PRESSURE_AMPLITUDE}, load : {0, 10 * EXTERNAL_LOAD}]

\* pressure_at_time with the amplitude of the scenario
ScenarioPressure(time, amplitude) == IF pressure_at_time(time) = 0 THEN 0 ELSE amplitude

\* driver.py lines 35-43 and integrator.py lines 45-77: mesh, springs, state
InitRest ==
    /\ pc = "while"
    /\ args \in RestCalls
    /\ LET m == generate_cylinder(args.n_circ, args.n_axial, TUBE_LENGTH, TUBE_RADIUS)
           p == ndarray_copy(<<m.vertices>>, 1)
           h2 == Append(p.heap, ZerosLike(m.vertices))
           o == ndarray_copy(h2, 1)
       IN  /\ vertices = m.vertices
           /\ triangles = m.triangles
           /\ ring_indices = m.ring_indices
           /\ end_vertices = m.end_vertices
           /\ springs = build_springs(m.vertices, m.triangles)
           /\ positions = p.ref
           /\ velocities = Len(h2)
           /\ original_vertices = o.ref
           /\ heap = o.heap
           /\ mass = VertexMass(Cardinality(DOMAIN m.vertices))
    /\ spring_forces = <<>>
    /\ frame_dt = 0
    /\ next_frame_time = 0
    /\ frames = <<>>
    /\ t = 0
    /\ pressure = 0
    /\ accelerations = <<>>
    /\ result = <<>>
    /\ exc = "none"
    /\ frame_times = <<>>
    /\ pressure_log = <<>>
    /\ interrupted_at = "none"
    /\ step_start = [t |-> 0, positions |-> <<>>, velocities |-> <<>>]
    /\ step_times = <<>>
    /\ partial = [at |-> "none", frames |-> <<>>]
    /\ NotDriving

\* lines 82-111 and 141: one whole step, no frame sampling
ScenarioStep ==
    /\ pc = "while"
    /\ Len(step_times) < MaxRestSteps
    /\ LET p == ScenarioPressure(t, args.amplitude)
           a == AccelerationsUnder(heap[positions], heap[velocities],
                                   heap[original_vertices], p, args.load, triangles,
                                   springs, ring_indices, end_vertices, mass)
           v1 == StepVelocities(heap[velocities], a, args.dt)
           x1 == StepPositions(heap[positions], v1, args.dt)
       IN  /\ pressure' = p
           /\ accelerations' = a
           /\ heap' = [heap EXCEPT ![velocities] = v1, ![positions] = x1]
    /\ step_start' = [t |-> t, positions |-> heap[positions],
                      velocities |-> heap[velocities]]
    /\ step_times' = Append(step_times, t)
    /\ t' = t + args.dt
    /\ UNCHANGED <<pc, args, springs, spring_forces, returned_forces, positions,
                   velocities, original_vertices, mass, frame_dt, next_frame_time,
                   frames, result, exc, frame_times, pressure_log, interrupted_at,
                   partial>>
    /\ UNCHANGED meshVars
    /\ UNCHANGED driverVars

NextRest == ScenarioStep

SpecRest == InitRest /\ [][NextRest]_vars

\* C11: from the built mesh (rest lengths equal to the built edge lengths,
\* ring reference equal to the initial positions) with zero velocity, zero
\* pressure and zero external load, the springs and the rings exert no force
\* and every integration step leaves all positions at their initial values
\* and all velocities zero.
C11_AtRestStable ==
    (args.amplitude = 0 /\ args.load = 0) =>
        /\ heap[positions] = vertices
        /\ heap[velocities] = ZerosLike(vertices)
        /\ compute_spring_forces(heap[positions], springs) = ZerosLike(vertices)
        /\ compute_ring_constraints(heap[positions], heap[velocities], ring_indices,
                                    heap[original_vertices]) = ZerosLike(vertices)

\* the 4 x 3 cylinder after 10 unforced steps
C11_Witness ==
    /\ args.n_circ = 4
    /\ args.n_axial = 3
    /\ args.amplitude = 0
    /\ args.load = 0
    /\ Len(step_times) = 10
    /\ t = 10 * args.dt
    /\ heap[positions] = vertices

(***************************************************************************)
(* Ring restoration: the integration step under the ring-constraint force  *)
(* alone, with the stiffness, damping factor, per-vertex mass and step of  *)
(* the repository, from a ring vertex displaced radially outward.          *)
(***************************************************************************)
\* the first ring of the 4 x 2 cylinder: its vertices lie on the axes, where a
\* radial displacement is a whole number of mm
RestoreRing == << CylinderRings(4, 2, TUBE_LENGTH)[1] >>
RestoreCalls ==
    [kind : {"restore"}, idx : {RestoreRing[1][n] : n \in DOMAIN RestoreRing[1]},
     displacement : 1..MaxDisplacement]

\* the vertex moved outward along its radius by d
Displaced(v, d) ==
    <<v[1] + d * TDiv(v[1], TUBE_RADIUS), v[2] + d * TDiv(v[2], TUBE_RADIUS), v[3]>>

InitRestore ==
    /\ pc = "while"
    /\ args \in RestoreCalls
    /\ vertices = CylinderVertices(4, 2, TUBE_LENGTH, TUBE_RADIUS)
    /\ triangles = <<>>
    /\ ring_indices = RestoreRing
    /\ end_vertices = <<<<>>, <<>>>>
    /\ springs = <<>>
    /\ heap = << vertices,
                 [vertices EXCEPT ![args.idx] = Displaced(@, args.displacement)],
                 ZerosLike(vertices),
                 vertices >>
    /\ positions = 2
    /\ velocities = 3
    /\ original_vertices = 4
    /\ mass = VertexMassOf(WALL_DENSITY_PER_STEP, N_CIRCUMFERENTIAL * N_AXIAL)
    /\ spring_forces = <<>>
    /\ frame_dt = 0
    /\ next_frame_time = 0
    /\ frames = <<>>
    /\ t = 0
    /\ pressure = 0
    /\ accelerations = <<>>
    /\ result = <<>>
    /\ exc = "none"
    /\ frame_times = <<>>
    /\ pressure_log = <<>>
    /\ interrupted_at = "none"
    /\ step_start = [t |-> 0, positions |-> <<>>, velocities |-> <<>>]
    /\ step_times = <<>>
    /\ partial = [at |-> "none", frames |-> <<>>]
    /\ NotDriving

\* integrator.py lines 100-111 with the ring-constraint force only; dt is one
\* step of DT
RestoreStep ==
    /\ pc = "while"
    /\ Len(step_times) < MaxRestoreSteps
    /\ LET f == RingConstraints(K_RING_PER_STEP, RING_DAMPING_PER_STEP, heap[positions],
                                heap[velocities], ring_indices, heap[original_vertices])
           a == [i \in DOMAIN f |->
                    <<TDiv(f[i][1], mass), TDiv(f[i][2], mass), TDiv(f[i][3], mass)>>]
           v1 == StepVelocities(heap[velocities], a, 1)
           x1 == StepPositions(heap[positions], v1, 1)
       IN  /\ returned_forces' = f
           /\ accelerations' = a
           /\ heap' = [heap EXCEPT ![velocities] = v1, ![positions] = x1]
    /\ step_start' = [t |-> t, positions |-> heap[positions],
                      velocities |-> heap[velocities]]
    /\ step_times' = Append(step_times, t)
    /\ t' = t + 1
    /\ UNCHANGED <<pc, args, springs, spring_forces, positions, velocities,
                   original_vertices, mass, frame_dt, next_frame_time, frames, pressure,
                   result, exc, frame_times, pressure_log, interrupted_at, partial>>
    /\ UNCHANGED meshVars
    /\ UNCHANGED driverVars

NextRestore == RestoreStep

SpecRestore == InitRestore /\ [][NextRestore]_vars

\* | r_curr - r_orig | of the displaced vertex
RadialDeviation ==
    Abs(Norm2(heap[positions][args.idx][1], heap[positions][args.idx][2])
        - Norm2(heap[original_vertices][args.idx][1], heap[original_vertices][args.idx][2]))

\* C12 as stated: from a ring vertex displaced radially outward with zero
\* velocity, no integration step under the ring-constraint force alone
\* increases the radial deviation | r_curr - r_orig |.
C12_Original == [][RadialDeviation' <= RadialDeviation]_vars

(***************************************************************************)
(* apply_external_load on arbitrary force arrays and end-vertex groups.    *)
(***************************************************************************)
LoadVertices == 0..3
\* the force arrays handed in: zeros, and one with every component set
ForceArrays == { [v \in LoadVertices |-> Zero3],
                 [v \in LoadVertices |-> <<v + 1, -v, 2 * v + 5>>] }
\* a group: distinct vertices, in any order
Groups ==
    UNION { {g \in [1..n -> LoadVertices] : \A a, b \in 1..n : a # b => g[a] # g[b]} :
            n \in 0..MaxGroup }
\* the two ends of a tube share no vertex
GroupPairs ==
    { e \in Groups \X Groups :
        \A a \in DOMAIN e[1], b \in DOMAIN e[2] : e[1][a] # e[2][b] }
\* loads that every group size divides, so that load / n_end is exact
LoadValues == {60, 3 * EXTERNAL_LOAD}
LoadCalls == [kind : {"load"}, forces : ForceArrays, ends : GroupPairs, load : LoadValues]

InitLoad ==
    /\ pc = "start"
    /\ args \in LoadCalls
    /\ vertices = <<>>
    /\ triangles = <<>>
    /\ ring_indices = <<>>
    /\ end_vertices = args.ends
    /\ springs = <<>>
    /\ spring_forces = <<>>
    /\ returned_forces = args.forces
    /\ driver_pc = "run"
    /\ calls = <<>>
    /\ NotSimulating

\* physics.py lines 116-128.  load / n_end is first computed inside the first
\* loop (line 122): with an empty first group and a non-empty second group it
\* raises ZeroDivisionError.
ApplyExternalLoad ==
    /\ pc = "start"
    /\ args.kind = "load"
    /\ IF Len(end_vertices[1]) = 0 /\ Len(end_vertices[2]) > 0
       THEN /\ exc' = "ZeroDivisionError"
            /\ pc' = "raised"
            /\ UNCHANGED returned_forces
       ELSE /\ returned_forces' = apply_external_load(returned_forces, end_vertices, args.load)
            /\ pc' = "done"
            /\ UNCHANGED exc
    /\ UNCHANGED <<args, springs, spring_forces, heap, positions, velocities,
                   original_vertices, mass, frame_dt, next_frame_time, frames, t,
                   pressure, accelerations, result, frame_times, pressure_log,
                   interrupted_at, step_start, step_times, partial>>
    /\ UNCHANGED meshVars
    /\ UNCHANGED driverVars

NextLoad == ApplyExternalLoad

SpecLoad == InitLoad /\ [][NextLoad]_vars

\* the axial force the call added to the vertices of a group, in total
RECURSIVE AxialTotal(_, _)
AxialTotal(group, n) ==
    IF n = 0 THEN 0
    ELSE (returned_forces[group[n]][3] - args.forces[group[n]][3]) + AxialTotal(group, n - 1)

\* C13 as stated: for any pair of (non-empty) end-vertex groups, of equal or
\* different sizes, the call adds an axial force of -load in total to one
\* group and +load in total to the other, so the net added force is zero;
\* nothing but the axial component of end vertices changes.
C13_Original ==
    (pc = "done" /\ end_vertices[1] # <<>> /\ end_vertices[2] # <<>>) =>
        /\ AxialTotal(end_vertices[2], Len(end_vertices[2])) = -args.load
        /\ AxialTotal(end_vertices[1], Len(end_vertices[1])) = args.load
        /\ AxialTotal(end_vertices[1], Len(end_vertices[1]))
              + AxialTotal(end_vertices[2], Len(end_vertices[2])) = 0
        /\ \A v \in DOMAIN returned_forces :
              /\ returned_forces[v][1] = args.forces[v][1]
              /\ returned_forces[v][2] = args.forces[v][2]
              /\ (\A n \in DOMAIN end_vertices[1] : end_vertices[1][n] # v)
                    /\ (\A n \in DOMAIN end_vertices[2] : end_vertices[2][n] # v)
                    => returned_forces[v] = args.forces[v]

(***************************************************************************)
(* compute_ring_constraints on arbitrary positions, velocities and rings.  *)
(***************************************************************************)
RingVertices == 0..2
\* on the axis (radius below the floor), and off it at two heights
RingPoints == { <<0, 0, 7>>, <<3, 4, 0>>, <<-6, 8, 2>> }
RingPointSeq == << <<0, 0, 7>>, <<3, 4, 0>>, <<-6, 8, 2>> >>
\* all vertices at one point, or one at each point
RingPositions ==
    { [v \in RingVertices |-> pt] : pt \in RingPoints }
        \cup { [v \in RingVertices |-> RingPointSeq[((v + shift) % 3) + 1]] : shift \in 0..2 }
RingOriginals == { [v \in RingVertices |-> <<3, 4, 0>>],
                   [v \in RingVertices |-> IF v = 0 THEN <<0, 0, 0>> ELSE <<0, -5, 1>>] }
RingVelocities == { [v \in RingVertices |-> Zero3],
                    [v \in RingVertices |-> <<v + 1, -2, 3 - 5 * v>>] }
\* a ring: any vertex indices, repeated or not; rings may share vertices
Rings == UNION { [1..n -> RingVertices] : n \in 0..MaxRingSize }
RingLists == UNION { [1..n -> Rings] : n \in 0..MaxRings }
RingCalls ==
    [kind : {"ring"}, vertices : RingPositions, velocities : RingVelocities,
     ring_indices : RingLists, original_vertices : RingOriginals]

InitRing ==
    /\ pc = "start"
    /\ args \in RingCalls
    /\ vertices = args.vertices
    /\ triangles = <<>>
    /\ ring_indices = args.ring_indices
    /\ end_vertices = <<<<>>, <<>>>>
    /\ springs = <<>>
    /\ spring_forces = <<>>
    /\ NotDriving
    /\ NotSimulating

\* physics.py lines 130-172
ComputeRingConstraints ==
    /\ pc = "start"
    /\ args.kind = "ring"
    /\ returned_forces' = compute_ring_constraints(vertices, args.velocities, ring_indices,
                                                  args.original_vertices)
    /\ pc' = "done"
    /\ UNCHANGED <<args, springs, spring_forces>>
    /\ UNCHANGED meshVars
    /\ UNCHANGED simVars
    /\ UNCHANGED driverVars

NextRing == ComputeRingConstraints

SpecRing == InitRing /\ [][NextRing]_vars

\* C14: the array compute_ring_constraints returns has a zero axial component
\* for every vertex and is zero in all components for every vertex that is
\* in no ring, for any positions, velocities and ring membership.
C14_RingForceInPlane ==
    pc = "done" =>
        \A v \in DOMAIN returned_forces :
            /\ returned_forces[v][3] = 0
            /\ (\A r \in DOMAIN ring_indices : \A n \in DOMAIN ring_indices[r] :
                    ring_indices[r][n] # v) => returned_forces[v] = Zero3

\* a ring vertex off its radius, moving axially, gets an in-plane force; a
\* vertex outside every ring gets none
C14_Witness ==
    /\ pc = "done"
    /\ ring_indices = << <<1, 1>>, <<2>> >>
    /\ args.velocities[1][3] # 0
    /\ vertices[1][3] # args.original_vertices[1][3]
    /\ returned_forces[1][1] # 0
    /\ returned_forces[1][2] # 0
    /\ returned_forces[1][3] = 0
    /\ returned_forces[0] = Zero3

(***************************************************************************)
(* Two calls of simulate with the same arguments, one of which receives    *)
(* KeyboardInterrupt.  simulate is deterministic (its state depends on the *)
(* clock only in log lines), so up to the interruption the two calls go    *)
(* through the same states: the model follows the uninterrupted call and   *)
(* notes, once, what the other call returns if interrupted where the first *)
(* now is.                                                                 *)
(***************************************************************************)
TwinCalls ==
    [kind : {"simulate"}, n_circ : {4}, n_axial : {2},
     t_end : 0..MaxTwinTEnd, dt : 1..MaxDt, fps : FrameRates]

InitTwin ==
    /\ pc = "start"
    /\ NotDriving
    /\ args \in TwinCalls
    /\ NoMesh
    /\ NotSimulating

\* lines 144-149 in the twin call: the list it returns, with the contents its
\* frames have at that moment
TwinInterrupt ==
    /\ pc \in TryBlock
    /\ partial.at = "none"
    /\ LET out == except_KeyboardInterrupt(frames, t, args.t_end)
       IN  /\ out.pc = "returned"
           /\ partial' = [at |-> pc,
                          frames |-> [k \in DOMAIN out.result |-> heap[out.result[k]]]]
    /\ UNCHANGED <<pc, args, springs, spring_forces, returned_forces, heap, positions,
                   velocities, original_vertices, mass, frame_dt, next_frame_time,
                   frames, t, pressure, accelerations, result, exc, frame_times,
                   pressure_log, interrupted_at, step_start, step_times>>
    /\ UNCHANGED meshVars
    /\ UNCHANGED driverVars

NextTwin ==
    \/ GenerateCylinder
    \/ BuildSprings
    \/ SimulateEnter
    \/ LoopTest
    \/ ComputeForces
    \/ UpdateVelocities
    \/ UpdatePositions
    \/ RecordTest
    \/ AppendFrame
    \/ ScheduleNextFrame
    \/ AdvanceTime
    \/ Return
    \/ TwinInterrupt

SpecTwin == InitTwin /\ [][NextTwin]_vars

\* C16: the list an interrupted call returns is a prefix of the list the same
\* call returns when it is not interrupted: the same frames in the same order
\* with the same contents, wherever inside a step the interruption arrives.
C16_InterruptedIsPrefix ==
    (pc = "returned" /\ partial.at # "none") =>
        /\ Len(partial.frames) <= Len(result)
        /\ \A k \in DOMAIN partial.frames : heap[result[k]] = partial.frames[k]

\* interrupted between appending the second frame and advancing the
\* threshold; the full run returns more frames, and its first two differ
C16_Witness ==
    /\ pc = "returned"
    /\ partial.at = "schedule"
    /\ Len(partial.frames) = 2
    /\ Len(result) > 2
    /\ partial.frames[1] # partial.frames[2]
    /\ heap[result[2]] = partial.frames[2]

(***************************************************************************)
(* Claims about run_simulation (checked under Spec).                       *)
(***************************************************************************)
IsPrefix(s, u) == Len(s) <= Len(u) /\ s = SubSeq(u, 1, Len(s))

\* the positions of the first step before its frame has been appended
BeforeFirstFrame == {"built", "while", "forces", "vel", "pos", "rec", "append"}

\* C19: an uninterrupted simulate with t_end > 0 returns at least one frame,
\* the first recorded in the first step, at t = 0; the list simulate ends
\* with is empty only when t_end <= 0 or when an interruption arrived before
\* the first frame was appended; run_simulation calls the renderer only on a
\* non-empty returned list, and only after generate_cylinder, build_springs
\* and simulate have finished, in that order.
C19_FramesThenRender ==
    /\ (pc = "returned" /\ interrupted_at = "none" /\ args.t_end > 0) =>
          /\ Len(result) >= 1
          /\ frame_times[1] = 0
    /\ frame_times # <<>> => (frame_times[1] = 0 /\ step_times[1] = 0)
    /\ (Len(step_times) >= 2 \/ (Len(step_times) = 1 /\ pc \in {"schedule", "advance"}))
          => frames # <<>>
    /\ (pc \in {"returned", "raised"} /\ frames = <<>>) =>
          \/ args.t_end <= 0
          \/ interrupted_at \in BeforeFirstFrame
    /\ (pc = "returned" /\ result = <<>>) => args.t_end <= 0
    /\ IsPrefix(calls, Pipeline)
    /\ (calls = Pipeline) => (pc = "returned" /\ result # <<>> /\ driver_pc = "done")
    /\ (driver_pc = "done" /\ result = <<>>) => Len(calls) = 3

\* an uninterrupted run of several frames has been rendered
C19_Witness ==
    /\ driver_pc = "done"
    /\ calls = Pipeline
    /\ interrupted_at = "none"
    /\ args.t_end > 0
    /\ Len(result) >= 2

(***************************************************************************)
(* The clock of simulate in floating point: t = 0.0 (line 76), the loop    *)
(* test (line 80) and t += dt (line 141).  A float is a whole number of    *)
(* units with at most SignificandBits significant bits; an addition rounds *)
(* its exact sum to the nearest float, ties to the even significand, as    *)
(* IEEE 754 does for the program's doubles.                                *)
(***************************************************************************)
RECURSIVE Pow2(_)
Pow2(n) == IF n = 0 THEN 1 ELSE 2 * Pow2(n - 1)

\* the distance between neighbouring floats at the magnitude of n >= 0
RECURSIVE Ulp(_)
Ulp(n) == IF n < Pow2(SignificandBits) THEN 1 ELSE 2 * Ulp(n \div 2)

\* the float nearest to n >= 0, ties to even
RoundToFloat(n) ==
    LET u == Ulp(n)
        lo == (n \div u) * u
        r2 == 2 * (n - lo)
    IN  IF r2 < u THEN lo
        ELSE IF r2 > u THEN lo + u
        ELSE IF (lo \div u) % 2 = 0 THEN lo ELSE lo + u

\* a + b in floating point
FloatAdd(a, b) == RoundToFloat(a + b)

Floats(lo, hi) == {n \in lo..hi : RoundToFloat(n) = n}

\* t_end below, at and above zero; dt > 0
ClockCalls ==
    [kind : {"clock"}, t_end : {-1} \cup Floats(0, MaxClockTEnd), dt : Floats(1, MaxDt)]

\* the steps a run is followed for: more than any run of these calls needs
\* whose clock keeps advancing
MaxClockSteps == 2 * MaxClockTEnd

InitClock ==
    /\ pc = "while"
    /\ args \in ClockCalls
    /\ NoMesh
    /\ NotDriving
    /\ NotSimulating

\* line 80: while t < t_end
ClockTest ==
    /\ pc = "while"
    /\ pc' = IF t < args.t_end THEN "advance" ELSE "epilogue"
    /\ UNCHANGED <<args, springs, spring_forces, returned_forces>>
    /\ UNCHANGED meshVars
    /\ UNCHANGED simVars
    /\ UNCHANGED driverVars

\* lines 82-141: one step (which reads t and does not write it), then t += dt
ClockAdvance ==
    /\ pc = "advance"
    /\ Len(step_times) < MaxClockSteps
    /\ step_times' = Append(step_times, t)
    /\ t' = FloatAdd(t, args.dt)
    /\ pc' = "while"
    /\ UNCHANGED <<args, springs, spring_forces, returned_forces, heap, positions,
                   velocities, original_vertices, mass, frame_dt, next_frame_time,
                   frames, pressure, accelerations, result, exc, frame_times,
                   pressure_log, interrupted_at, step_start, partial>>
    /\ UNCHANGED meshVars
    /\ UNCHANGED driverVars

\* lines 151-158
ClockReturn ==
    /\ pc = "epilogue"
    /\ pc' = "returned"
    /\ UNCHANGED <<args, springs, spring_forces, returned_forces>>
    /\ UNCHANGED meshVars
    /\ UNCHANGED simVars
    /\ UNCHANGED driverVars

NextClock == ClockTest \/ ClockAdvance \/ ClockReturn

SpecClock == InitClock /\ [][NextClock]_vars

\* ceil(a / b) for a >= 0, b > 0
CeilDiv(a, b) == (a + b - 1) \div b

\* C18 as stated: an uninterrupted run ends after exactly the steps at the
\* times 0, dt, 2 * dt, ... below t_end, ceil(t_end / dt) of them and none
\* when t_end <= 0, t growing by exactly dt in every step.
C18_Original ==
    /\ pc = "returned" =>
          /\ Len(step_times) = (IF args.t_end <= 0 THEN 0 ELSE CeilDiv(args.t_end, args.dt))
          /\ \A k \in DOMAIN step_times : step_times[k] = (k - 1) * args.dt
          /\ t = Len(step_times) * args.dt
    /\ \A k \in DOMAIN step_times : step_times[k] < args.t_end

====
